---------------------------- MODULE Spec2Model ----------------------------
(***************************************************************************)
(* PostSpot post service: the Flask endpoints of src/main.py (add_post,    *)
(* read_post, get_posts_nearby) running as concurrent requests over the    *)
(* FirestoreGateway of src/postspot/data_gateway.py.                       *)
(*                                                                         *)
(* A request occupies a slot; a slot is reused once its response is out.   *)
(* A handler is cut into steps only where it talks to something shared     *)
(* (the token verifier, the users collection, the posts collection), so    *)
(* requests interleave exactly at those points.                            *)
(***************************************************************************)
EXTENDS Integers, Sequences, FiniteSets, TLC

\* ------------------------------------------------------------------ bounds

\* Number of document ids the allocator can hand out (size of the id space
\* explored); at most MaxPosts posts are ever created.
MaxPosts == 2

\* Request slots: how many requests are in flight at once.
Slots == {"r1", "r2"}
SlotBefore(a, b) == a = "r1" /\ b = "r2"

\* -------------------------------------------------------- program constants

\* radius_in_kilometers: float = 0.07, held as a fixed-point number with
\* RadiusScale units per kilometre (7 / 100 km).
RadiusScale == 100
DefaultRadius == 7

\* radius_meters = radius * 1000
MetersPerKm == 1000

\* ------------------------------------------------------------------ inputs

PostIds == 1..MaxPosts
NoId == 0

\* Subject ids of the identity issuer; the "users" collection holds the
\* registered ones.  This service never writes the users collection.
Subjects == {"u1", "u2"}
users == {"u1"}
NoSubject == ""

\* Values of the X-Forwarded-Authorization header, as character sequences.
\* Token "g" is a verifiable token of subject u1 (registered), "h" a
\* verifiable token of subject u2 (not registered), "x" does not verify.
Absent == [present |-> FALSE, value |-> <<>>]
Hdr(v) == [present |-> TRUE, value |-> v]
Headers ==
    { Absent,
      Hdr(<<>>),
      Hdr(<<"B">>),
      Hdr(<<"B", " ", "g">>),
      Hdr(<<"B", " ", " ", "h">>),
      Hdr(<<" ", "B", " ", "x", " ", "z">>) }

\* Coordinates are held in grid units; one unit is MetersPerUnit metres of
\* surface distance, so (0,0)-(2,0) is exactly 70 m = 0.07 km.
MetersPerUnit == 35
\* Reference points of a query, as <<longitude, latitude>>.
RefPoints == { <<0, 0>>, <<2, 1>> }
Radii == {0, DefaultRadius}

\* JSON values of the request body fields longitude and latitude.
JNum(n) == [t |-> "number", v |-> n]
JStr(n) == [t |-> "numeric string", v |-> n]
JNull == [t |-> "null", v |-> 0]

\* Request bodies.  The body may carry an author_google_id of its own.
Body(ti, co, lo, la, au) ==
    [title |-> ti, content |-> co, longitude |-> lo, latitude |-> la,
     author_google_id |-> au]
Bodies ==
    { Body("A", "c", JNum(0), JNum(0), "u2"),
      Body("B", "d", JStr(2), JNum(0), "u1"),
      Body("A", "c", JNull, JNum(0), "u1") }
NoBody == Body("", "", JNull, JNull, NoSubject)

\* ------------------------------------------------------------------- state

VARIABLES
    posts,       \* the "posts" collection: document id -> stored dict
    allocated,   \* ids handed out so far by collection("posts").document()
    req,         \* slot -> the request it handles
    created,     \* id -> the arguments of the add_post call that returned it
    completed    \* number of add_post calls that have returned

vars == <<posts, allocated, req, created, completed>>

\* ----------------------------------------------------------- pure helpers

\* str.split(): the maximal runs of non-whitespace characters.
RECURSIVE SplitFrom(_, _, _)
SplitFrom(s, i, cur) ==
    IF i > Len(s)
    THEN IF cur = <<>> THEN <<>> ELSE <<cur>>
    ELSE IF s[i] = " "
         THEN IF cur = <<>>
              THEN SplitFrom(s, i + 1, <<>>)
              ELSE <<cur>> \o SplitFrom(s, i + 1, <<>>)
         ELSE SplitFrom(s, i + 1, Append(cur, s[i]))

split(s) == SplitFrom(s, 1, <<>>)

\* Lines 98-103 of add_post: the local variable token is assigned only when
\* the header is present, and bearer.split()[1] needs two components.
ExtractToken(header) ==
    IF header.present
    THEN IF Len(split(header.value)) < 2
         THEN [outcome |-> "IndexError", token |-> <<>>]
         ELSE IF split(header.value)[2] = <<>>
              THEN [outcome |-> "falsy", token |-> <<>>]
              ELSE [outcome |-> "ok", token |-> split(header.value)[2]]
    ELSE [outcome |-> "UnboundLocalError", token |-> <<>>]

\* decode_openid_token: the subject id of a token that verifies; it raises
\* when the token does not verify or the verifier cannot be reached.
decode_openid_token(token, reachable) ==
    IF ~reachable THEN [ok |-> FALSE, google_id |-> NoSubject]
    ELSE IF token = <<"g">> THEN [ok |-> TRUE, google_id |-> "u1"]
    ELSE IF token = <<"h">> THEN [ok |-> TRUE, google_id |-> "u2"]
    ELSE [ok |-> FALSE, google_id |-> NoSubject]

\* FirestoreGateway.user_exists: a point lookup in the users collection.
user_exists(google_id) == google_id \in users

\* float(x): numbers and numeric strings coerce, None raises TypeError.
CanFloat(j) == j.t \in {"number", "numeric string"}
Float(j) == j.v

\* to_dict() with the two coordinates exchanged.
PostDict_Swapped(post_id, author_google_id, title, content, longitude, latitude) ==
    [post_id |-> post_id, author_google_id |-> author_google_id,
     title |-> title, content |-> content,
     longitude |-> latitude, latitude |-> longitude]

\* Post(...).to_dict()
PostDict(post_id, author_google_id, title, content, longitude, latitude) ==
    [post_id |-> post_id, author_google_id |-> author_google_id,
     title |-> title, content |-> content,
     longitude |-> longitude, latitude |-> latitude]

NoPost == PostDict(NoId, NoSubject, "", "", 0, 0)

\* Integer square root (floor).
RECURSIVE ISqrtFrom(_, _)
ISqrtFrom(n, k) == IF (k + 1) * (k + 1) > n THEN k ELSE ISqrtFrom(n, k + 1)
ISqrt(n) == ISqrtFrom(n, 0)

Abs(x) == IF x < 0 THEN -x ELSE x

\* Point(latitude, longitude)
Point(latitude, longitude) == [latitude |-> latitude, longitude |-> longitude]

\* geodesic(a, b).meters on the grid: whole metres of surface distance.
geodesic(a, b) ==
    ISqrt((MetersPerUnit * Abs(a.latitude - b.latitude)) ^ 2
          + (MetersPerUnit * Abs(a.longitude - b.longitude)) ^ 2)

\* radius_meters = radius * 1000
radius_meters(radius) == (radius * MetersPerKm) \div RadiusScale

\* The comparison with the boundary left out.
WithinRadius_Strict(distance, radius) ==
    distance * RadiusScale < radius * MetersPerKm

\* if distance <= radius_meters
WithinRadius(distance, radius) == distance <= radius_meters(radius)

\* The loop body of get_posts_within_radius for one streamed document.
FilterDoc(result, post_data, longitude, latitude, radius) ==
    IF WithinRadius(geodesic(Point(latitude, longitude),
                             Point(post_data.latitude, post_data.longitude)),
                    radius)
    THEN Append(result, post_data)
    ELSE result

\* ---------------------------------------------------------------- responses

Resp(status, message, post_id, google_id, body) ==
    [status |-> status, message |-> message, post_id |-> post_id,
     google_id |-> google_id, body |-> body]

NoResp == Resp(0, "", NoId, NoSubject, <<>>)

\* An unhandled exception in a view: Flask answers 500.
InternalServerError == Resp(500, "Internal Server Error", NoId, NoSubject, <<>>)

\* ---------------------------------------------------------------- requests

Idle ==
    [kind |-> "idle", pc |-> "idle", header |-> Absent, token |-> <<>>,
     google_id |-> NoSubject, body |-> NoBody, post_id |-> NoId,
     longitude |-> 0, latitude |-> 0, radius |-> 0,
     begin |-> {}, seen |-> {}, finish |-> {}, result |-> <<>>,
     steps |-> <<>>, cause |-> "", calls |-> 0, resp |-> NoResp]

Free(s) == req[s].pc \in {"idle", "done"}

\* A new request is taken by the first slot that is free.
Accepts(s) == Free(s) /\ \A o \in Slots : Free(o) => ~SlotBefore(o, s)

Done(r, cause, resp) == [r EXCEPT !.pc = "done", !.cause = cause, !.resp = resp]

\* add_post requests that will still ask the allocator for an id.
Pending == {s \in Slots : req[s].kind = "add" /\ req[s].pc \in {"decode", "exists", "create"}}

Init ==
    /\ posts = << >>
    /\ allocated = {}
    /\ req = [s \in Slots |-> Idle]
    /\ created = << >>
    /\ completed = 0

\* ------------------------------------------------------------ POST /posts

\* add_post, lines 98-103: take the token out of the header.
AddPostExtract(s, header) ==
    /\ Accepts(s)
    /\ Cardinality(allocated) + Cardinality(Pending) < MaxPosts
    /\ LET e == ExtractToken(header)
           r == [Idle EXCEPT !.kind = "add", !.header = header]
       IN req' = [req EXCEPT ![s] =
              CASE e.outcome = "UnboundLocalError" ->
                       Done(r, "token missing", InternalServerError)
                [] e.outcome = "IndexError" ->
                       Done(r, "token malformed", InternalServerError)
                [] e.outcome = "falsy" ->
                       Done(r, "token missing",
                            Resp(401, "Token not provided", NoId, NoSubject, <<>>))
                [] OTHER ->
                       [r EXCEPT !.pc = "decode", !.token = e.token,
                                 !.steps = <<"token">>]]
    /\ UNCHANGED <<posts, allocated, created, completed>>

\* add_post, lines 105-120 and 125-127: verify the token.
AddPostDecode(s) ==
    /\ req[s].kind = "add" /\ req[s].pc = "decode"
    /\ \E reachable \in BOOLEAN :
         LET d == decode_openid_token(req[s].token, reachable)
         IN req' = [req EXCEPT ![s] =
                IF d.ok
                THEN [@ EXCEPT !.pc = "exists", !.google_id = d.google_id,
                               !.steps = Append(@, "decoded"), !.calls = @ + 1]
                ELSE Done([@ EXCEPT !.calls = @ + 1],
                          IF reachable THEN "token invalid" ELSE "verifier unreachable",
                          Resp(401, "Invalid token or user not signed up",
                               NoId, NoSubject, <<>>))]
    /\ UNCHANGED <<posts, allocated, created, completed>>

\* The gate without the registration check.
AddPostUserExists_NoCheck(s) ==
    /\ req[s].kind = "add" /\ req[s].pc = "exists"
    /\ req' = [req EXCEPT ![s] =
           [@ EXCEPT !.pc = "create", !.steps = Append(@, "exists"),
                     !.calls = @ + 1]]
    /\ UNCHANGED <<posts, allocated, created, completed>>

\* add_post, lines 122-127: is the subject registered?  The lookup raises
\* when the store cannot be reached, inside the same try block.
AddPostUserExists(s) ==
    /\ req[s].kind = "add" /\ req[s].pc = "exists"
    /\ \E available \in BOOLEAN :
         req' = [req EXCEPT ![s] =
             IF ~available
             THEN Done([@ EXCEPT !.calls = @ + 1], "store unavailable",
                       Resp(401, "Invalid token or user not signed up",
                            NoId, NoSubject, <<>>))
             ELSE IF ~user_exists(@.google_id)
             THEN Done([@ EXCEPT !.calls = @ + 1], "not signed up",
                       Resp(401, "User with google_id does not exist",
                            NoId, @.google_id, <<>>))
             ELSE [@ EXCEPT !.pc = "create", !.steps = Append(@, "exists"),
                            !.calls = @ + 1]]
    /\ UNCHANGED <<posts, allocated, created, completed>>

\* An allocator that only avoids the ids of documents already written.
document_Unwritten(used) ==
    CHOOSE id \in PostIds \ DOMAIN posts : \A o \in PostIds \ DOMAIN posts : id <= o

\* collection("posts").document(): an id no earlier call was given.  Ids are
\* opaque, so the unused ids are handed out in a fixed order.
document(used) == CHOOSE id \in PostIds \ used : \A o \in PostIds \ used : id <= o

\* add_post, lines 129-134, and FirestoreGateway.add_post, lines 109-111:
\* read the body, coerce the coordinates, and take a fresh document id.
AddPostCreate(s, body) ==
    /\ req[s].kind = "add" /\ req[s].pc = "create"
    /\ IF CanFloat(body.longitude) /\ CanFloat(body.latitude)
       THEN LET id == document(allocated)
            IN /\ allocated' = allocated \cup {id}
               /\ req' = [req EXCEPT ![s] =
                      [@ EXCEPT !.pc = "write", !.body = body, !.post_id = id]]
       ELSE /\ req' = [req EXCEPT ![s] =
                     Done([@ EXCEPT !.body = body], "bad body", InternalServerError)]
            /\ UNCHANGED allocated
    /\ UNCHANGED <<posts, created, completed>>

\* doc_ref.set(...) on the posts collection.
Set(collection, id, dict) ==
    [k \in DOMAIN collection \cup {id} |->
        IF k = id THEN dict ELSE collection[k]]

\* The author taken from the request body.
AuthorOf_Body(r) == r.body.author_google_id

\* The author the post is stored under.
AuthorOf(r) == r.google_id

\* FirestoreGateway.add_post, lines 112-114, and add_post, line 142: the
\* document write and the 201 response.
AddPostWrite(s) ==
    /\ req[s].kind = "add" /\ req[s].pc = "write"
    /\ LET r == req[s]
           d == PostDict(r.post_id, AuthorOf(r), r.body.title, r.body.content,
                         Float(r.body.longitude), Float(r.body.latitude))
       IN /\ posts' = Set(posts, r.post_id, d)
          /\ created' = Set(created, r.post_id,
                 [author_google_id |-> r.google_id,
                  title |-> r.body.title, content |-> r.body.content,
                  longitude |-> Float(r.body.longitude),
                  latitude |-> Float(r.body.latitude)])
          /\ completed' = completed + 1
          /\ req' = [req EXCEPT ![s] =
                 Done(r, "", Resp(201, "Post added", r.post_id, r.google_id, <<>>))]
    /\ UNCHANGED allocated

\* ------------------------------------------------------ GET /posts/<post_id>

\* read_post without the doc.exists test.
ReadPost_NoExists(s, post_id) ==
    /\ Accepts(s)
    /\ req' = [req EXCEPT ![s] =
           LET r == [Idle EXCEPT !.kind = "read", !.post_id = post_id]
           IN Done(r, "", Resp(200, "", NoId, NoSubject,
                  <<IF post_id \in DOMAIN posts THEN posts[post_id] ELSE NoPost>>))]
    /\ UNCHANGED <<posts, allocated, created, completed>>

\* read_post of main.py over FirestoreGateway.read_post: one document get.
ReadPost(s, post_id) ==
    /\ Accepts(s)
    /\ req' = [req EXCEPT ![s] =
           LET r == [Idle EXCEPT !.kind = "read", !.post_id = post_id]
           IN IF post_id \in DOMAIN posts
              THEN Done(r, "", Resp(200, "", NoId, NoSubject, <<posts[post_id]>>))
              ELSE Done(r, "PostNotFoundError",
                        Resp(404, "No post found", post_id, NoSubject, <<>>))]
    /\ UNCHANGED <<posts, allocated, created, completed>>

\* --------------------------------------- GET /posts/<longitude>/<latitude>

\* get_posts_within_radius, lines 128-138: open the stream over the posts
\* collection.
NearbyStart(s, longitude, latitude, radius) ==
    /\ Accepts(s)
    /\ req' = [req EXCEPT ![s] =
           [Idle EXCEPT !.kind = "nearby", !.pc = "stream",
                        !.longitude = longitude, !.latitude = latitude,
                        !.radius = radius, !.begin = DOMAIN posts]]
    /\ UNCHANGED <<posts, allocated, created, completed>>

\* The stream yields documents in the order of their ids.
NextDoc(ids) == CHOOSE id \in ids : \A o \in ids : id <= o

\* get_posts_within_radius, lines 140-151: the stream yields one document.
\* A document written after the stream was opened may or may not be yielded.
NearbyNext(s) ==
    /\ req[s].kind = "nearby" /\ req[s].pc = "stream"
    /\ DOMAIN posts \ req[s].seen # {}
    /\ LET id == NextDoc(DOMAIN posts \ req[s].seen)
       IN req' = [req EXCEPT ![s] =
             [@ EXCEPT !.seen = @ \cup {id},
                       !.result = FilterDoc(@, posts[id], req[s].longitude,
                                            req[s].latitude, req[s].radius)]]
    /\ UNCHANGED <<posts, allocated, created, completed>>

\* The loop left before the stream is exhausted.
NearbyFinish_Early(s) ==
    /\ req[s].kind = "nearby" /\ req[s].pc = "stream"
    /\ req' = [req EXCEPT ![s] =
           IF @.result # <<>>
           THEN Done([@ EXCEPT !.finish = DOMAIN posts], "",
                     Resp(200, "", NoId, NoSubject, @.result))
           ELSE Done([@ EXCEPT !.finish = DOMAIN posts], "NoPostNearbyError",
                     Resp(404, "No posts within", NoId, NoSubject, <<>>))]
    /\ UNCHANGED <<posts, allocated, created, completed>>

\* get_posts_within_radius, lines 153-156, and get_posts_nearby: the stream
\* is exhausted once every document it was opened over has been yielded.
NearbyFinish(s) ==
    /\ req[s].kind = "nearby" /\ req[s].pc = "stream"
    /\ req[s].begin \subseteq req[s].seen
    /\ req' = [req EXCEPT ![s] =
           IF @.result # <<>>
           THEN Done([@ EXCEPT !.finish = DOMAIN posts], "",
                     Resp(200, "", NoId, NoSubject, @.result))
           ELSE Done([@ EXCEPT !.finish = DOMAIN posts], "NoPostNearbyError",
                     Resp(404, "No posts within", NoId, NoSubject, <<>>))]
    /\ UNCHANGED <<posts, allocated, created, completed>>

\* -------------------------------------------------------------------- spec

Next ==
    \/ \E s \in Slots, header \in Headers : AddPostExtract(s, header)
    \/ \E s \in Slots : AddPostDecode(s)
    \/ \E s \in Slots : AddPostUserExists(s)
    \/ \E s \in Slots, body \in Bodies : AddPostCreate(s, body)
    \/ \E s \in Slots : AddPostWrite(s)
    \/ \E s \in Slots, post_id \in PostIds : ReadPost(s, post_id)
    \/ \E s \in Slots, p \in RefPoints, radius \in Radii :
          NearbyStart(s, p[1], p[2], radius)
    \/ \E s \in Slots : NearbyNext(s)
    \/ \E s \in Slots : NearbyFinish(s)

Spec == Init /\ [][Next]_vars

\* ------------------------------------------------------ shared vocabulary

AddDone(s) == req[s].kind = "add" /\ req[s].pc = "done"
NearbyDone(s) == req[s].kind = "nearby" /\ req[s].pc = "done"
ReadDone(s) == req[s].kind = "read" /\ req[s].pc = "done"

\* The request passed the three checks of the gate, in order.
PassedGate(r) == r.steps = <<"token", "decoded", "exists">>

\* The request was turned away by the gate.
GateRejected(s) ==
    /\ AddDone(s)
    /\ req[s].cause \in {"token missing", "token malformed", "token invalid",
                         "not signed up"}

\* The stored post lies within the radius of the reference point, in metres.
Near(p, longitude, latitude, radius) ==
    geodesic([latitude |-> latitude, longitude |-> longitude],
             [latitude |-> p.latitude, longitude |-> p.longitude]) * RadiusScale
        <= radius * MetersPerKm

Elems(seq) == {seq[i] : i \in 1..Len(seq)}

\* slot s took a step that ended a request of the given kind
Finishes(s, kind) ==
    /\ req'[s] # req[s]
    /\ req'[s].kind = kind
    /\ req'[s].pc = "done"

\* ---------------------------------------------------------------------- C1

\* C1 (as claimed): an add_post request whose X-Forwarded-Authorization
\* header is absent, or has fewer than two whitespace-separated components,
\* ends in 401 ("Token not provided" when the header is absent) and writes
\* no post.
C1_Claim ==
    \A s \in Slots :
        (AddDone(s) /\ (~req[s].header.present \/ Len(split(req[s].header.value)) < 2))
        => /\ req[s].resp.status = 401
           /\ (~req[s].header.present => req[s].resp.message = "Token not provided")
           /\ req[s].post_id = NoId

\* ---------------------------------------------------------------------- C2

\* C2: every step that changes the posts collection is the write of an
\* add_post request that has, in this order, extracted a token, decoded it
\* and found its subject registered; and a step that ends an add_post request
\* in a rejection leaves the posts collection unchanged.
C2_Step ==
    /\ posts' # posts =>
         \E s \in Slots :
            /\ req[s].kind = "add" /\ req[s].pc = "write"
            /\ req[s].steps = <<"token", "decoded", "exists">>
            /\ req[s].token # <<>>
            /\ req[s].token = split(req[s].header.value)[2]
            /\ decode_openid_token(req[s].token, TRUE).ok
            /\ req[s].google_id = decode_openid_token(req[s].token, TRUE).google_id
            /\ req[s].google_id \in users
            /\ Finishes(s, "add")
            /\ req'[s].resp.status = 201
            /\ DOMAIN posts' = DOMAIN posts \cup {req[s].post_id}
            /\ \A id \in DOMAIN posts \ {req[s].post_id} : posts'[id] = posts[id]
    /\ \A s \in Slots :
         (Finishes(s, "add") /\ req'[s].resp.status # 201)
         => /\ posts' = posts
            /\ req'[s].steps # <<"token", "decoded", "exists">>
               \/ req'[s].cause = "bad body"

C2_Theorem == [][C2_Step]_vars

\* A post was written by a request that passed the gate while another
\* request sits rejected for an unregistered subject.
C2_Witness ==
    \E s, t \in Slots :
        /\ AddDone(s) /\ req[s].resp.status = 201 /\ PassedGate(req[s])
        /\ req[s].post_id \in DOMAIN posts
        /\ AddDone(t) /\ req[t].cause = "not signed up"

\* ---------------------------------------------------------------------- C3

C4_Claim ==
    /\ \A s \in Slots : GateRejected(s) => req[s].resp.status = 401
    /\ \A s, t \in Slots :
         (GateRejected(s) /\ GateRejected(t)) => req[s].resp = req[t].resp

\* ---------------------------------------------------------------------- C5

\* C5 (as claimed): when the users lookup raises or the verifier cannot be
\* reached, add_post answers 5xx, not 401, and makes each call once.
C5_Claim ==
    \A s \in Slots :
        (AddDone(s) /\ req[s].cause \in {"store unavailable", "verifier unreachable"})
        => /\ req[s].resp.status >= 500
           /\ req[s].resp.status # 401
           /\ req[s].calls <= 2

\* ---------------------------------------------------------------------- C6

\* C6: once add_post has returned id P, the stored document P carries P and
\* the creation arguments in every later state, every later read_post(P)
\* answers 200 with exactly that record, two reads of P agree, and no step
\* changes or removes a stored post.
C6_Step ==
    /\ \A id \in DOMAIN created' :
         /\ id \in DOMAIN posts'
         /\ posts'[id].post_id = id
         /\ posts'[id].author_google_id = created'[id].author_google_id
         /\ posts'[id].title = created'[id].title
         /\ posts'[id].content = created'[id].content
         /\ posts'[id].longitude = created'[id].longitude
         /\ posts'[id].latitude = created'[id].latitude
    /\ \A id \in DOMAIN posts : id \in DOMAIN posts' /\ posts'[id] = posts[id]
    /\ \A id \in DOMAIN created : id \in DOMAIN created' /\ created'[id] = created[id]
    /\ \A s \in Slots :
         (Finishes(s, "read") /\ req'[s].post_id \in DOMAIN created)
         => /\ req'[s].resp.status = 200
            /\ Len(req'[s].resp.body) = 1
            /\ req'[s].resp.body[1].post_id = req'[s].post_id
            /\ req'[s].resp.body[1].author_google_id
                   = created[req'[s].post_id].author_google_id
            /\ req'[s].resp.body[1].title = created[req'[s].post_id].title
            /\ req'[s].resp.body[1].content = created[req'[s].post_id].content
            /\ req'[s].resp.body[1].longitude = created[req'[s].post_id].longitude
            /\ req'[s].resp.body[1].latitude = created[req'[s].post_id].latitude
    /\ \A s, t \in Slots :
         ( /\ req'[s].kind = "read" /\ req'[t].kind = "read"
           /\ req'[s].pc = "done" /\ req'[t].pc = "done"
           /\ req'[s].post_id = req'[t].post_id
           /\ req'[s].resp.status = 200 /\ req'[t].resp.status = 200 )
         => req'[s].resp.body = req'[t].resp.body

C6_Theorem == [][C6_Step]_vars

\* A post with distinct coordinates was read back after a second post was
\* added.
C6_Witness ==
    \E s \in Slots :
        /\ ReadDone(s) /\ req[s].resp.status = 200
        /\ req[s].resp.body[1].longitude # req[s].resp.body[1].latitude
        /\ Cardinality(DOMAIN posts) = MaxPosts

\* ---------------------------------------------------------------------- C7

\* C7: the ids returned by add_post calls are pairwise distinct, a write
\* never lands on an existing document, and the number of stored posts is
\* the number of add_post calls that have returned.
C7_Theorem ==
    /\ Cardinality(DOMAIN posts) = completed
    /\ DOMAIN created = DOMAIN posts
    /\ \A s \in Slots :
         (req[s].kind = "add" /\ req[s].pc = "write")
         => /\ req[s].post_id \notin DOMAIN posts
            /\ \A t \in Slots \ {s} :
                 (req[t].kind = "add" /\ req[t].pc \in {"write", "done"})
                 => req[t].post_id # req[s].post_id
    /\ \A s, t \in Slots :
         (s # t /\ AddDone(s) /\ AddDone(t)
          /\ req[s].resp.status = 201 /\ req[t].resp.status = 201)
         => req[s].resp.post_id # req[t].resp.post_id

\* Two add_post calls with identical arguments have both returned.
C7_Witness ==
    /\ completed = 2
    /\ \E a, b \in DOMAIN created : a # b /\ created[a] = created[b]
    /\ \E s, t \in Slots :
         /\ s # t /\ AddDone(s) /\ AddDone(t)
         /\ req[s].resp.status = 201 /\ req[t].resp.status = 201

\* ---------------------------------------------------------------------- C8

\* C8: a get_posts_within_radius call during which no post was written
\* returns each stored post within the radius (boundary included) exactly
\* once and nothing else; it answers 404 exactly when there is none and
\* never answers 200 with an empty list; with radius 0 only co-located
\* posts are returned.
C8_Theorem ==
    \A s \in Slots :
        (NearbyDone(s) /\ req[s].begin = req[s].finish)
        => LET r == req[s]
               W == {id \in r.finish :
                        Near(posts[id], r.longitude, r.latitude, r.radius)}
           IN /\ Elems(r.result) = {posts[id] : id \in W}
              /\ Len(r.result) = Cardinality(W)
              /\ r.resp.status \in {200, 404}
              /\ r.resp.status = 404 <=> W = {}
              /\ r.resp.status = 200 => r.resp.body = r.result /\ r.result # <<>>
              /\ r.resp.status = 404 => r.resp.body = <<>>
              /\ r.radius = 0 =>
                   \A p \in Elems(r.result) :
                      p.longitude = r.longitude /\ p.latitude = r.latitude

\* A quiet query over two posts that kept the one on the boundary, next to a
\* quiet query of radius 0 that found nothing.
C8_Witness ==
    \E s, t \in Slots :
        /\ NearbyDone(s) /\ req[s].begin = req[s].finish
        /\ Cardinality(req[s].finish) = 2
        /\ req[s].radius = DefaultRadius
        /\ \E p \in Elems(req[s].result) :
              geodesic([latitude |-> req[s].latitude, longitude |-> req[s].longitude],
                       [latitude |-> p.latitude, longitude |-> p.longitude]) = 70
        /\ NearbyDone(t) /\ req[t].begin = req[t].finish
        /\ req[t].radius = 0 /\ req[t].resp.status = 404
        /\ req[t].finish # {}

\* ---------------------------------------------------------------------- C9

\* C9: a read_post(id) step answers 404 with a message naming id exactly
\* when no add_post call has returned id, answers 200 with the stored
\* record otherwise, and leaves the store as it was.
C9_Step ==
    \A s \in Slots :
        Finishes(s, "read")
        => LET id == req'[s].post_id
           IN /\ req'[s].resp.status \in {200, 404}
              /\ req'[s].resp.status = 404 <=> id \notin DOMAIN created
              /\ req'[s].resp.status = 404 =>
                    /\ req'[s].resp.post_id = id
                    /\ req'[s].resp.body = <<>>
                    /\ req'[s].cause = "PostNotFoundError"
              /\ req'[s].resp.status = 200 => req'[s].resp.body = <<posts[id]>>
              /\ posts' = posts
              /\ created' = created

C9_Theorem == [][C9_Step]_vars

\* One read answered 404 and another 200.
C9_Witness ==
    \E s, t \in Slots :
        /\ ReadDone(s) /\ req[s].resp.status = 404
        /\ ReadDone(t) /\ req[t].resp.status = 200

\* --------------------------------------------------------------------- C10

\* C10: whatever is written while get_posts_within_radius streams, its
\* result holds every post within the radius that was stored when the query
\* began, every record of the result is a stored post within the radius, and
\* it answers 404 only if no post stored at the beginning was within it.
C10_Theorem ==
    \A s \in Slots :
        NearbyDone(s)
        => LET r == req[s]
           IN /\ \A id \in r.begin :
                    Near(posts[id], r.longitude, r.latitude, r.radius)
                    => posts[id] \in Elems(r.result)
              /\ \A p \in Elems(r.result) :
                    /\ p.post_id \in DOMAIN posts
                    /\ posts[p.post_id] = p
                    /\ Near(p, r.longitude, r.latitude, r.radius)
              /\ r.resp.status = 404 =>
                    \A id \in r.begin :
                       ~Near(posts[id], r.longitude, r.latitude, r.radius)
              /\ r.resp.status = 200 => r.resp.body = r.result

\* A query that found a post stored before it began, while another post was
\* written during the stream.
C10_Witness ==
    \E s \in Slots :
        /\ NearbyDone(s)
        /\ req[s].begin # {}
        /\ req[s].finish # req[s].begin
        /\ \E p \in Elems(req[s].result) : p.post_id \in req[s].begin

=============================================================================
